---- MODULE Spec2Model ----
(***************************************************************************)
(* The query layer of the board-game review API (models/reviews-models.js) *)
(* over the reviews and comments tables of the relational store.           *)
(*                                                                         *)
(* A table is the sequence of its rows in storage order.  A statement is   *)
(* executed atomically by the store; a query function that issues two      *)
(* statements (selectCommentsFromReview) takes two steps, and statements   *)
(* of other requests may run between them.  `settled` is the promise that  *)
(* the step just taken settled (or NoCall when the step settled none).     *)
(***************************************************************************)
EXTENDS Integers, Sequences, FiniteSets, TLC

VARIABLES reviews, comments, inflight, settled

vars == <<reviews, comments, inflight, settled>>

(* ---------------------------- bounds ---------------------------------- *)
MaxReviews == 2
MaxComments == 2
MaxInFlight == 1

\* created_at values of the seeded and inserted rows
Times == {1, 2}
\* |votes| is capped: an UPDATE that would leave the range is not taken
VoteCap == 2

\* review_id path segments, as the characters of the string
PathSegments ==
    { <<"1">>, <<"0", "2">>, <<"9">>, <<"1", "x">> }
\* inc_votes values of a vote-increment request
IncVotes == {-1, 2}
\* username and body of a comment-creation request; Absent is a missing key
Absent == "<absent>"
Users == {"mallionaire"}
UsernameInputs == {"mallionaire", "non-existent-username", Absent}
BodyInputs == {"Great game!", Absent}

(* ----------------------- text <-> number ------------------------------ *)
DigitChars == <<"0", "1", "2", "3", "4", "5", "6", "7", "8", "9">>

IsDigit(c) == \E i \in 1..10 : DigitChars[i] = c

DigitVal(c) == (CHOOSE i \in 1..10 : DigitChars[i] = c) - 1

RECURSIVE DigitsText(_)
\* decimal digits of a natural number
DigitsText(n) ==
    IF n < 10 THEN <<DigitChars[n + 1]>>
    ELSE DigitsText(n \div 10) \o <<DigitChars[(n % 10) + 1]>>

\* how the driver sends a number (or the store returns a bigint): as text
NumToText(n) == IF n < 0 THEN <<"-">> \o DigitsText(-n) ELSE DigitsText(n)

RECURSIVE DigitsValue(_, _)
\* value of a sequence of digit characters, most significant first
DigitsValue(s, acc) ==
    IF s = <<>> THEN acc
    ELSE DigitsValue(Tail(s), acc * 10 + DigitVal(Head(s)))

HasSign(s) == s # <<>> /\ Head(s) \in {"-", "+"}

Unsigned(s) == IF HasSign(s) THEN Tail(s) ELSE s

Signed(s, n) == IF HasSign(s) /\ Head(s) = "-" THEN -n ELSE n

\* the store's integer input: a sign and digits, nothing else; otherwise the
\* statement fails with SQLSTATE 22P02
PgIsInteger(s) ==
    /\ Unsigned(s) # <<>>
    /\ \A i \in 1..Len(Unsigned(s)) : IsDigit(Unsigned(s)[i])

PgInteger(s) == Signed(s, DigitsValue(Unsigned(s), 0))

RECURSIVE DigitPrefix(_)
DigitPrefix(s) ==
    IF s = <<>> \/ ~IsDigit(Head(s)) THEN <<>>
    ELSE <<Head(s)>> \o DigitPrefix(Tail(s))

NaN == "NaN"

\* JavaScript parseInt: a sign, then the longest prefix of digits
parseInt(s) ==
    IF DigitPrefix(Unsigned(s)) = <<>> THEN NaN
    ELSE Signed(s, DigitsValue(DigitPrefix(Unsigned(s)), 0))

(* --------------------------- the store -------------------------------- *)
ReviewRow(id, t) == [review_id |-> id, created_at |-> t, votes |-> 0]

CommentRow(id, rid, t, a, b) ==
    [comment_id |-> id, author |-> a, review_id |-> rid, body |-> b,
     votes |-> 0, created_at |-> t]

\* the seed: reviews 1..n in insertion order
SeedReviews ==
    UNION { { [i \in 1..n |-> ReviewRow(i, ts[i])] : ts \in [1..n -> Times] }
            : n \in 0..MaxReviews }

\* the seed: comments 1..m in insertion order, each on a seeded review
SeedComments(n) ==
    UNION { { [i \in 1..m |->
                 CommentRow(i, rs[i], ts[i], "mallionaire", "Great game!")]
              : rs \in [1..m -> 1..n], ts \in [1..m -> Times] }
            : m \in 0..MaxComments }

\* no promise settled in the step just taken
NoCall == [op |-> "none"]

Init ==
    /\ reviews \in SeedReviews
    /\ comments \in SeedComments(Len(reviews))
    /\ inflight = {}
    /\ settled = NoCall

(* ------------------------- SQL building blocks ------------------------ *)
RECURSIVE InsertAsc(_, _)
\* the comparison of an ascending sort
InsertAsc(row, sorted) ==
    IF sorted = <<>> THEN <<row>>
    ELSE IF Head(sorted).created_at <= row.created_at
         THEN <<Head(sorted)>> \o InsertAsc(row, Tail(sorted))
         ELSE <<row>> \o sorted

RECURSIVE InsertDesc(_, _)
\* place row after the rows that are not older than it
InsertDesc(row, sorted) ==
    IF sorted = <<>> THEN <<row>>
    ELSE IF Head(sorted).created_at >= row.created_at
         THEN <<Head(sorted)>> \o InsertDesc(row, Tail(sorted))
         ELSE <<row>> \o sorted

RECURSIVE OrderByCreatedAtDesc(_)
\* ORDER BY created_at DESC; rows of equal created_at keep storage order
OrderByCreatedAtDesc(rows) ==
    IF rows = <<>> THEN <<>>
    ELSE InsertDesc(rows[Len(rows)],
                    OrderByCreatedAtDesc(SubSeq(rows, 1, Len(rows) - 1)))

\* SELECT * FROM reviews WHERE review_id = $1, for an integer $1
ReviewsWhereId(id) == SelectSeq(reviews, LAMBDA r : r.review_id = id)

\* the statement without its WHERE clause
CommentsAll(id) == comments

\* SELECT * FROM comments WHERE review_id = $1, for an integer $1
CommentsWhereReviewId(id) == SelectSeq(comments, LAMBDA c : c.review_id = id)

\* reviews LEFT JOIN comments ON reviews.review_id = comments.review_id,
\* the rows of one review: comments_review_id is <<>> for NULL
LeftJoinComments(r) ==
    LET m == CommentsWhereReviewId(r.review_id)
    IN  IF m = <<>> THEN << [review |-> r, comments_review_id |-> <<>>] >>
        ELSE [i \in 1..Len(m) |->
                [review |-> r, comments_review_id |-> <<m[i].review_id>>]]

\* COUNT(*): every row of the group
CountStar(group) == Len(group)

\* COUNT(comments.review_id): the rows of the group where it is not NULL
CountCommentsReviewId(group) ==
    Len(SelectSeq(group, LAMBDA j : j.comments_review_id # <<>>))

WithCount(r, text) ==
    [review_id |-> r.review_id, created_at |-> r.created_at,
     votes |-> r.votes, comment_count |-> text]

\* the statement of selectReviews: one row per group (per review_id), the
\* count as the text the driver hands over for a bigint
ReviewsWithCommentCount ==
    OrderByCreatedAtDesc(
        [i \in 1..Len(reviews) |->
            WithCount(reviews[i],
                NumToText(CountCommentsReviewId(LeftJoinComments(reviews[i]))))])

(* --------------------------- query layer ------------------------------ *)
NotFound(reviewId) ==
    [status |-> 404, msg |-> <<"No review found for review ">> \o reviewId]

\* the store's error for text that is no integer, as the driver raises it
InvalidText == [code |-> "22P02"]

\* selectReviews(): the rows, each comment_count passed through parseInt
selectReviews ==
    LET reviewArr == ReviewsWithCommentCount
    IN  [op |-> "selectReviews", outcome |-> "resolved", queries |-> 1,
         value |-> [i \in 1..Len(reviewArr) |->
                      WithCount(reviewArr[i],
                                parseInt(reviewArr[i].comment_count))]]

SelectReviews ==
    /\ settled = NoCall
    /\ settled' = selectReviews
    /\ UNCHANGED <<reviews, comments, inflight>>

Undefined == [undefined |-> TRUE]

\* selectReviewFromId without the test of rows[0]
selectReviewFromIdUnchecked(reviewId) ==
    LET call == [op |-> "selectReviewFromId", reviewId |-> reviewId,
                 queries |-> 1]
    IN  IF ~PgIsInteger(reviewId)
        THEN [outcome |-> "rejected", err |-> InvalidText] @@ call
        ELSE LET rows == ReviewsWhereId(PgInteger(reviewId))
             IN  [outcome |-> "resolved",
                  value |-> IF rows = <<>> THEN Undefined ELSE rows[1]]
                 @@ call

\* selectReviewFromId with a catch that reports every failure as 404
selectReviewFromIdCatching(reviewId) ==
    LET call == [op |-> "selectReviewFromId", reviewId |-> reviewId,
                 queries |-> 1]
        rows == IF PgIsInteger(reviewId)
                THEN ReviewsWhereId(PgInteger(reviewId)) ELSE <<>>
    IN  IF rows = <<>>
        THEN [outcome |-> "rejected", err |-> NotFound(reviewId)] @@ call
        ELSE [outcome |-> "resolved", value |-> rows[1]] @@ call

\* selectReviewFromId(reviewId)
selectReviewFromId(reviewId) ==
    LET call == [op |-> "selectReviewFromId", reviewId |-> reviewId,
                 queries |-> 1]
    IN  IF ~PgIsInteger(reviewId)
        THEN [outcome |-> "rejected", err |-> InvalidText] @@ call
        ELSE LET rows == ReviewsWhereId(PgInteger(reviewId))
             IN  IF rows = <<>>
                 THEN [outcome |-> "rejected", err |-> NotFound(reviewId)]
                      @@ call
                 ELSE [outcome |-> "resolved", value |-> rows[1]] @@ call

\* a read that also counts the view on the row
SelectReviewFromIdCounting(reviewId) ==
    /\ settled = NoCall
    /\ settled' = selectReviewFromId(reviewId)
    /\ reviews' = [i \in 1..Len(reviews) |->
                     IF settled'.outcome = "resolved"
                        /\ reviews[i].review_id = settled'.value.review_id
                     THEN [reviews[i] EXCEPT !.votes = @ + 1]
                     ELSE reviews[i]]
    /\ UNCHANGED <<comments, inflight>>

SelectReviewFromId(reviewId) ==
    /\ settled = NoCall
    /\ settled' = selectReviewFromId(reviewId)
    /\ UNCHANGED <<reviews, comments, inflight>>

\* selectCommentsFromReview without the test of the first result
CheckReviewSkipped(reviewId) ==
    LET call == [op |-> "selectCommentsFromReview", reviewId |-> reviewId]
    IN  IF ~PgIsInteger(reviewId)
        THEN [outcome |-> "rejected", err |-> InvalidText, queries |-> 1]
             @@ call
        ELSE [outcome |-> "pending", queries |-> 2] @@ call

\* selectCommentsFromReview(reviewId), up to the callback of its first
\* statement: it rejects, or issues the second statement
CheckReview(reviewId) ==
    LET call == [op |-> "selectCommentsFromReview", reviewId |-> reviewId]
    IN  IF ~PgIsInteger(reviewId)
        THEN [outcome |-> "rejected", err |-> InvalidText, queries |-> 1]
             @@ call
        ELSE IF Len(ReviewsWhereId(PgInteger(reviewId))) = 0
             THEN [outcome |-> "rejected", err |-> NotFound(reviewId),
                   queries |-> 1] @@ call
             ELSE [outcome |-> "pending", queries |-> 2] @@ call

\* an in-flight selectCommentsFromReview: its second statement is issued
\* and not yet executed; overtaken records that a write ran meanwhile
InFlight(reviewId) == [reviewId |-> reviewId, overtaken |-> FALSE]

SelectCommentsFromReviewCheck(reviewId) ==
    /\ settled = NoCall
    /\ IF CheckReview(reviewId).outcome = "pending"
       THEN /\ Cardinality(inflight) < MaxInFlight
            /\ inflight' = inflight \cup {InFlight(reviewId)}
            /\ settled' = NoCall
       ELSE /\ inflight' = inflight
            /\ settled' = CheckReview(reviewId)
    /\ UNCHANGED <<reviews, comments>>

\* the second callback rejecting when the review has no comments
FetchCommentsOrReject(f) ==
    LET rows == OrderByCreatedAtDesc(
                    CommentsWhereReviewId(PgInteger(f.reviewId)))
        call == [op |-> "selectCommentsFromReview", reviewId |-> f.reviewId,
                 queries |-> 2, raced |-> f.overtaken]
    IN  IF rows = <<>>
        THEN [outcome |-> "rejected", err |-> NotFound(f.reviewId)] @@ call
        ELSE [outcome |-> "resolved", value |-> rows] @@ call

\* the second statement of selectCommentsFromReview and its callback
FetchComments(f) ==
    [op |-> "selectCommentsFromReview", reviewId |-> f.reviewId,
     outcome |-> "resolved", queries |-> 2, raced |-> f.overtaken,
     value |-> OrderByCreatedAtDesc(
                   CommentsWhereReviewId(PgInteger(f.reviewId)))]

SelectCommentsFromReviewFetch(f) ==
    /\ settled = NoCall
    /\ settled' = FetchComments(f)
    /\ inflight' = inflight \ {f}
    /\ UNCHANGED <<reviews, comments>>

\* a write statement ran while these calls were in flight
Overtake(calls) == { [f EXCEPT !.overtaken = TRUE] : f \in calls }

\* rows[0] of a result
FirstRow(rows) == IF rows = <<>> THEN Undefined ELSE rows[1]

\* an UPDATE that keeps only the rows it matched
UpdateVotesOnly(p1, p2) ==
    LET m == SelectSeq(comments, LAMBDA c : c.review_id = p2)
    IN  [i \in 1..Len(m) |-> [m[i] EXCEPT !.votes = @ + p1]]

\* UPDATE comments SET votes = votes + $1 WHERE review_id = $2
UpdateVotes(p1, p2) ==
    [i \in 1..Len(comments) |->
        IF comments[i].review_id = p2
        THEN [comments[i] EXCEPT !.votes = @ + p1]
        ELSE comments[i]]

\* ... RETURNING *: the rows the statement updated
Returning(p1, p2) ==
    SelectSeq(UpdateVotes(p1, p2), LAMBDA c : c.review_id = p2)

\* the parameter array of patchComment as the driver sends it: $1 is its
\* first element, $2 its second
PatchParams(review_id, inc_votes) == <<review_id, NumToText(inc_votes)>>

\* patchComment(review_id, inc_votes)
patchComment(review_id, inc_votes) ==
    LET call == [op |-> "patchComment", reviewId |-> review_id,
                 inc_votes |-> inc_votes, queries |-> 1]
        p == PatchParams(review_id, inc_votes)
    IN  IF ~PgIsInteger(p[1]) \/ ~PgIsInteger(p[2])
        THEN [outcome |-> "rejected", err |-> InvalidText] @@ call
        ELSE [outcome |-> "resolved",
              value |-> FirstRow(Returning(PgInteger(p[1]), PgInteger(p[2])))]
             @@ call

PatchComment(review_id, inc_votes) ==
    /\ settled = NoCall
    /\ settled' = patchComment(review_id, inc_votes)
    /\ IF settled'.outcome = "resolved"
       THEN /\ comments' =
                 UpdateVotes(PgInteger(PatchParams(review_id, inc_votes)[1]),
                             PgInteger(PatchParams(review_id, inc_votes)[2]))
            /\ \A i \in 1..Len(comments') :
                  comments'[i].votes \in -VoteCap..VoteCap
            /\ inflight' = IF comments' = comments THEN inflight
                           ELSE Overtake(inflight)
       ELSE UNCHANGED <<comments, inflight>>
    /\ UNCHANGED reviews

(* ------------- comment creation and the handler layer ----------------- *)
IncompleteInformation ==
    [status |-> 400, msg |-> <<"Bad request - incomplete information">>]

UnknownReference == [status |-> 404, msg |-> <<"Not found">>]

\* insertComment(reviewId, username, body), created at time t
insertComment(reviewId, username, body, t) ==
    LET call == [op |-> "insertComment", reviewId |-> reviewId,
                 username |-> username, body |-> body]
    IN  IF username = Absent \/ body = Absent
        THEN [outcome |-> "rejected", err |-> IncompleteInformation,
              queries |-> 0] @@ call
        ELSE IF ~PgIsInteger(reviewId)
        THEN [outcome |-> "rejected", err |-> InvalidText, queries |-> 1]
             @@ call
        ELSE IF username \notin Users
                \/ Len(ReviewsWhereId(PgInteger(reviewId))) = 0
        THEN [outcome |-> "rejected", err |-> UnknownReference,
              queries |-> 1] @@ call
        ELSE [outcome |-> "resolved", queries |-> 1,
              value |-> CommentRow(Len(comments) + 1, PgInteger(reviewId),
                                   t, username, body)] @@ call

InsertComment(reviewId, username, body, t) ==
    /\ settled = NoCall
    /\ settled' = insertComment(reviewId, username, body, t)
    /\ IF settled'.outcome = "resolved"
       THEN /\ Len(comments) < MaxComments
            /\ comments' = Append(comments, settled'.value)
            /\ inflight' = Overtake(inflight)
       ELSE UNCHANGED <<comments, inflight>>
    /\ UNCHANGED reviews

\* the handler's translation of a rejection into the response
ErrorResponse(err) ==
    IF "code" \in DOMAIN err
    THEN IF err.code = "22P02"
         THEN [status |-> 400, msg |-> <<"Bad request">>]
         ELSE [status |-> 500, msg |-> <<"Internal server error">>]
    ELSE [status |-> err.status, msg |-> err.msg]

\* the callbacks chained on a settled promise run before any other result
\* is processed: the handler sends the response
Respond ==
    /\ settled # NoCall
    /\ settled' = NoCall
    /\ UNCHANGED <<reviews, comments, inflight>>

(* ------------------------- specification ------------------------------ *)
Next ==
    \/ Respond
    \/ SelectReviews
    \/ \E reviewId \in PathSegments : SelectReviewFromId(reviewId)
    \/ \E reviewId \in PathSegments : SelectCommentsFromReviewCheck(reviewId)
    \/ \E f \in inflight : SelectCommentsFromReviewFetch(f)
    \/ \E review_id \in PathSegments, inc_votes \in IncVotes :
          PatchComment(review_id, inc_votes)
    \/ \E reviewId \in PathSegments, username \in UsernameInputs,
          body \in BodyInputs, t \in Times :
          InsertComment(reviewId, username, body, t)

Spec == Init /\ [][Next]_vars

(* ----------------------------- claims --------------------------------- *)
\* a path segment made of decimal digits only
IsIntegerShaped(s) ==
    /\ s # <<>>
    /\ \A i \in 1..Len(s) :
          s[i] \in {"0", "1", "2", "3", "4", "5", "6", "7", "8", "9"}

\* the integer an integer-shaped segment denotes
IdOf(s) == DigitsValue(s, 0)

ReviewExists(id) == \E i \in 1..Len(reviews) : reviews[i].review_id = id

CommentsOf(id) == { j \in 1..Len(comments) : comments[j].review_id = id }

NonIncreasing(rows) ==
    \A k \in 1..(Len(rows) - 1) : rows[k].created_at >= rows[k + 1].created_at

ReadOps == {"selectReviews", "selectReviewFromId", "selectCommentsFromReview"}

\* C1: selectReviews returns each stored review exactly once, and each
\* returned comment_count is an integer equal to the number of comment rows
\* of that review; a review without comments is returned with count 0.
C1_CommentCount ==
    settled.op = "selectReviews" =>
        /\ settled.outcome = "resolved"
        /\ Len(settled.value) = Len(reviews)
        /\ \A i \in 1..Len(reviews) :
              \E k \in 1..Len(settled.value) :
                 /\ settled.value[k].review_id = reviews[i].review_id
                 /\ settled.value[k].created_at = reviews[i].created_at
                 /\ settled.value[k].votes = reviews[i].votes
        /\ \A k \in 1..Len(settled.value) :
              /\ settled.value[k].comment_count \in Nat
              /\ settled.value[k].comment_count
                   = Cardinality(CommentsOf(settled.value[k].review_id))

\* selectReviews has returned a review without comments (count 0) next to
\* a review with two comments
C1_Witness ==
    /\ settled.op = "selectReviews"
    /\ \E k \in 1..Len(settled.value) : settled.value[k].comment_count = 0
    /\ \E k \in 1..Len(settled.value) : settled.value[k].comment_count = 2

\* C2: the sequences selectReviews and selectCommentsFromReview return are
\* sorted by created_at descending (adjacent elements never increase).
C2_SortedDesc ==
    (settled.op \in {"selectReviews", "selectCommentsFromReview"}
       /\ settled.outcome = "resolved")
    => NonIncreasing(settled.value)

\* the comments came back in the reverse of their storage order
C2_Witness ==
    /\ settled.op = "selectCommentsFromReview"
    /\ settled.outcome = "resolved"
    /\ Len(settled.value) = 2
    /\ settled.value[1].created_at > settled.value[2].created_at
    /\ settled.value[1].comment_id > settled.value[2].comment_id

\* C3: for a reviewId of an existing review selectCommentsFromReview
\* resolves with exactly the comment rows of that review, the empty
\* sequence when there are none; it does not reject with 404.
C3_CommentsOfReview ==
    (/\ settled.op = "selectCommentsFromReview"
     /\ IsIntegerShaped(settled.reviewId)
     /\ ReviewExists(IdOf(settled.reviewId)))
    => /\ settled.outcome = "resolved"
       /\ { settled.value[k] : k \in 1..Len(settled.value) }
            = { comments[j] : j \in CommentsOf(IdOf(settled.reviewId)) }
       /\ Len(settled.value) = Cardinality(CommentsOf(IdOf(settled.reviewId)))

\* an existing review without comments, while other reviews have some
C3_Witness ==
    /\ settled.op = "selectCommentsFromReview"
    /\ settled.outcome = "resolved"
    /\ settled.value = <<>>
    /\ comments # <<>>

\* C4: for an integer-shaped reviewId selectReviewFromId resolves with the
\* review row of that id when it exists, and otherwise rejects with status
\* 404 and msg "No review found for review <reviewId>", the id as passed.
C4_ReviewOrNotFound ==
    (settled.op = "selectReviewFromId" /\ IsIntegerShaped(settled.reviewId))
    => IF ReviewExists(IdOf(settled.reviewId))
       THEN /\ settled.outcome = "resolved"
            /\ \E i \in 1..Len(reviews) :
                  /\ reviews[i] = settled.value
                  /\ reviews[i].review_id = IdOf(settled.reviewId)
       ELSE /\ settled.outcome = "rejected"
            /\ settled.err
                 = [status |-> 404,
                    msg |-> <<"No review found for review ">>
                            \o settled.reviewId]

\* a lookup of the absent review "02" was rejected while review 1 exists
C4_Witness ==
    /\ settled.op = "selectReviewFromId"
    /\ settled.reviewId = <<"0", "2">>
    /\ settled.outcome = "rejected"
    /\ settled.err.status = 404
    /\ reviews # <<>>

\* C5: for an integer-shaped reviewId of no existing review
\* selectCommentsFromReview rejects with status 404 and msg "No review
\* found for review <reviewId>" after the existence query alone: the
\* comments query is issued only by a call whose check passed.
C5_NoReviewNoCommentsQuery ==
    (settled.op = "selectCommentsFromReview"
       /\ IsIntegerShaped(settled.reviewId))
    => IF ReviewExists(IdOf(settled.reviewId))
       THEN settled.queries = 2
       ELSE /\ settled.outcome = "rejected"
            /\ settled.err
                 = [status |-> 404,
                    msg |-> <<"No review found for review ">>
                            \o settled.reviewId]
            /\ settled.queries = 1

\* the comments of an absent review were asked for while comments exist
C5_Witness ==
    /\ settled.op = "selectCommentsFromReview"
    /\ IsIntegerShaped(settled.reviewId)
    /\ settled.outcome = "rejected"
    /\ settled.err.status = 404
    /\ settled.queries = 1
    /\ comments # <<>>

\* C6: patchCommentVotes(reviewId, incVotes) adds exactly incVotes to the
\* votes of each comment whose review_id equals reviewId, and returns an
\* updated row.
C6_PatchAddsIncVotes ==
    [][(settled'.op = "patchComment" /\ IsIntegerShaped(settled'.reviewId))
       => /\ settled'.outcome = "resolved"
          /\ Len(comments') = Len(comments)
          /\ \A j \in CommentsOf(IdOf(settled'.reviewId)) :
                comments'[j].votes = comments[j].votes + settled'.inc_votes
          /\ CommentsOf(IdOf(settled'.reviewId)) # {}
                => \E j \in CommentsOf(IdOf(settled'.reviewId)) :
                      settled'.value = comments'[j]]_vars

\* the incomplete-information rejection of a comment-creation request
IsIncomplete(call) ==
    call.op = "insertComment"
    /\ (call.username = Absent \/ call.body = Absent)

NonNumeric(s) == ~IsIntegerShaped(s)

ReviewScopedOps ==
    {"selectReviewFromId", "selectCommentsFromReview", "insertComment"}

BadRequest == [status |-> 400, msg |-> <<"Bad request">>]

\* C7 as stated: a non-numeric review_id on any review-scoped route yields
\* status 400 with msg "Bad request", the storage layer's type error being
\* propagated unchanged to the handler.
C7_NonNumericIsBadRequest ==
    (settled.op \in ReviewScopedOps /\ NonNumeric(settled.reviewId))
    => /\ settled.outcome = "rejected"
       /\ settled.err = [code |-> "22P02"]
       /\ ErrorResponse(settled.err) = BadRequest

\* C7 amended: the same, for the GET routes and for a POST whose body has
\* both username and body; a POST lacking one of them yields status 400
\* with msg "Bad request - incomplete information" whatever the review_id.
C7_NonNumericIsBadRequestWhenComplete ==
    (settled.op \in ReviewScopedOps /\ NonNumeric(settled.reviewId))
    => /\ settled.outcome = "rejected"
       /\ IF IsIncomplete(settled)
          THEN ErrorResponse(settled.err)
                 = [status |-> 400,
                    msg |-> <<"Bad request - incomplete information">>]
          ELSE /\ settled.err = [code |-> "22P02"]
               /\ ErrorResponse(settled.err) = BadRequest

\* a review was looked up by the segment "1x" while review 1 exists
C7_Witness ==
    /\ settled.op = "selectReviewFromId"
    /\ settled.reviewId = <<"1", "x">>
    /\ settled.outcome = "rejected"
    /\ ReviewExists(1)

\* a step of a read operation: one that settles a read, or the first step
\* of a selectCommentsFromReview whose check passed
ReadStep ==
    \/ settled'.op \in ReadOps
    \/ Cardinality(inflight') > Cardinality(inflight)

\* the read that settled last, issued once more in the current state,
\* settles the same way
RepeatedReadAgrees ==
    /\ settled.op = "selectReviews" => selectReviews = settled
    /\ settled.op = "selectReviewFromId"
          => selectReviewFromId(settled.reviewId) = settled
    /\ (settled.op = "selectCommentsFromReview"
          /\ settled.outcome = "rejected")
          => CheckReview(settled.reviewId) = settled
    /\ (settled.op = "selectCommentsFromReview"
          /\ settled.outcome = "resolved")
          => /\ CheckReview(settled.reviewId).outcome = "pending"
             /\ FetchComments([reviewId |-> settled.reviewId,
                               overtaken |-> settled.raced]) = settled

\* C8: the read operations leave the stored reviews and comments
\* unchanged, whether they resolve or reject, and the same read repeated
\* with no write in between gives the identical result.
C8_ReadsChangeNothing ==
    [][/\ ReadStep => (reviews' = reviews /\ comments' = comments)
       /\ RepeatedReadAgrees
      ]_vars

\* an existing review was read by id while it has comments
C8_Witness ==
    /\ settled.op = "selectReviewFromId"
    /\ settled.outcome = "resolved"
    /\ CommentsOf(settled.value.review_id) # {}

SameButVotes(c, d) ==
    /\ c.comment_id = d.comment_id
    /\ c.author = d.author
    /\ c.review_id = d.review_id
    /\ c.body = d.body
    /\ c.created_at = d.created_at

\* C9: no step of the query layer changes the stored reviews or removes a
\* comment row; patchComment changes only the votes of comment rows, never
\* another field and never the number of rows.
C9_NothingDeleted ==
    [][/\ reviews' = reviews
       /\ Len(comments') >= Len(comments)
       /\ \A j \in 1..Len(comments) : SameButVotes(comments[j], comments'[j])
       /\ settled'.op = "patchComment" => Len(comments') = Len(comments)
      ]_vars

\* patchComment has updated a row while another row was left alone
C9_Witness ==
    /\ settled.op = "patchComment"
    /\ settled.outcome = "resolved"
    /\ settled.value # Undefined
    /\ \E j \in 1..Len(comments) : comments[j].review_id # settled.value.review_id

\* C10: a selectCommentsFromReview that passed its existence check
\* resolves, whatever insertions and patchComment calls ran between its
\* two queries, with comments of the requested review only, each at most
\* once; it does not reject.
C10_SecondQueryResolves ==
    (settled.op = "selectCommentsFromReview" /\ settled.queries = 2)
    => /\ settled.outcome = "resolved"
       /\ \A k \in 1..Len(settled.value) :
             settled.value[k].review_id = IdOf(settled.reviewId)
       /\ \A k, l \in 1..Len(settled.value) :
             settled.value[k].comment_id = settled.value[l].comment_id
                => k = l

\* a write ran between the two queries of the call, and the call resolved
\* with a comment whose votes were patched
C10_Witness ==
    /\ settled.op = "selectCommentsFromReview"
    /\ settled.queries = 2
    /\ settled.raced
    /\ \E k \in 1..Len(settled.value) : settled.value[k].votes # 0
====
